---- MODULE Spec2Model ----
(***************************************************************************)
(* Model of vbdiar/scoring/diarization.py (class Diarization): loading of  *)
(* the pickled i-vector sets named by an index file, scoring of every set  *)
(* against its cluster centroids, and the RTTM dump.                       *)
(*                                                                         *)
(* Conventions                                                             *)
(*  - a token of an index line is a sequence of characters, a line is its  *)
(*    tokens plus a flag for leading white space;                          *)
(*  - a set name is the sequence of its '/'-separated components, so       *)
(*    "a//b" is <<"a", "", "b">> and "./c" is <<".", "c">>;                *)
(*  - a vector is a sequence of integers, a matrix a sequence of rows;     *)
(*  - an uncaught Python exception ends the run: pc = "failed" (or         *)
(*    "load_failed" when it leaves the constructor), err names its class.  *)
(***************************************************************************)
EXTENDS Integers, Sequences, FiniteSets, TLC

\* Longest index file (in lines) and longest list of sets handed to the constructor.
MaxLines == 2
\* Largest max_num_speakers / max_speakers argument explored.
MaxSpeakersArg == 2

VARIABLES
    pc,               \* "new", "loading", "load_failed", "ready", "scoring", "dumping", "failed"
    err,              \* exception that reached the caller, or "none"
    index,            \* content of the file self.input_list, line by line
    lineNo,           \* the generator's position in the index, 1-based
    loaded,           \* what load_ivecs has yielded so far
    ivecs,            \* self.ivecs
    ivecs0,           \* self.ivecs as it was when the constructor returned
    norm,             \* self.norm is not None
    plda,             \* self.plda is not None
    max_num_speakers, \* argument of the running score_ivec call, 0 outside a call
    pos,              \* loop position of score_ivec / dump_rttm, 1-based
    scores_dict,      \* score_ivec's local scores_dict
    scores,           \* the mapping the caller holds: what its last score_ivec call returned
    scored,           \* the last score_ivec call has returned
    log,              \* per set of the running/last score_ivec call: what was invoked
    rttm,             \* files written by the dump_rttm call on the current mapping
    ret               \* outcome of the last get_ivec / variational_bayes / get_num_speakers call

vars == <<pc, err, index, lineNo, loaded, ivecs, ivecs0, norm, plda,
          max_num_speakers, pos, scores_dict, scores, scored, log, rttm, ret>>

\* Optional values: None is the empty sequence, a present value v is <<v>>.
None == <<>>

Some(v) == <<v>>

----------------------------------------------------------------------------
(* Generic helpers *)

RECURSIVE SumSeq(_)
SumSeq(s) == IF s = <<>> THEN 0 ELSE Head(s) + SumSeq(Tail(s))

Sign(x) == IF x < 0 THEN -1 ELSE IF x > 0 THEN 1 ELSE 0

Dot(x, y) == SumSeq([d \in 1..Len(x) |-> x[d] * y[d]])

\* Python dict assignment d[k] = v
DictPut(d, k, v) == [x \in (DOMAIN d) \cup {k} |-> IF x = k THEN v ELSE d[x]]

EmptyDict == [x \in {} |-> 0]

----------------------------------------------------------------------------
(* Index lines and persisted records *)

Digits == {"0", "1", "2", "3", "4", "5", "6", "7", "8", "9"}

DigitVal(c) ==
    CASE c = "0" -> 0 [] c = "1" -> 1 [] c = "2" -> 2 [] c = "3" -> 3 [] c = "4" -> 4
      [] c = "5" -> 5 [] c = "6" -> 6 [] c = "7" -> 7 [] c = "8" -> 8 [] c = "9" -> 9

RECURSIVE DigitsVal(_, _)
DigitsVal(s, acc) ==
    IF s = <<>> THEN acc ELSE DigitsVal(Tail(s), 10 * acc + DigitVal(Head(s)))

\* Python int(token): optional sign, then one or more decimal digits; anything
\* else raises ValueError.
ParseIntBody(tok) ==
    IF tok # <<>> /\ Head(tok) \in {"-", "+"} THEN Tail(tok) ELSE tok

ParseIntOk(tok) ==
    /\ ParseIntBody(tok) # <<>>
    /\ \A i \in 1..Len(ParseIntBody(tok)) : ParseIntBody(tok)[i] \in Digits

ParseInt(tok) ==
    IF Head(tok) = "-" THEN 0 - DigitsVal(ParseIntBody(tok), 0)
    ELSE DigitsVal(ParseIntBody(tok), 0)

FileTokens == {<<"f", "0">>, <<"f", "1">>, <<"f", "2">>, <<"f", "3">>, <<"f", "4">>}

CountTokens == {<<"1">>, <<"2">>, <<"-", "1">>, <<"x">>}

\* The lines an index file is drawn from: blank, <name> (with or without leading
\* white space), <name> <count>, and a line of three columns.
Lines ==
    {[lead |-> FALSE, toks |-> <<>>]}
    \cup {[lead |-> l, toks |-> <<f>>] : l \in BOOLEAN, f \in FileTokens}
    \cup {[lead |-> FALSE, toks |-> <<f, c>>] : f \in FileTokens, c \in CountTokens}
    \cup {[lead |-> FALSE, toks |-> <<<<"f", "1">>, <<"2">>, <<"x">>>>]}

RECURSIVE SeqsUpTo(_, _)
SeqsUpTo(S, n) ==
    IF n = 0 THEN {<<>>}
    ELSE LET shorter == SeqsUpTo(S, n - 1)
         IN  shorter \cup {Append(s, x) : s \in {t \in shorter : Len(t) = n - 1}, x \in S}

Ivec(v, ws, we) == [data |-> v, window_start |-> ws, window_end |-> we]

\* The pickle files under self.ivecs_dir: file stem -> the IvecSet it unpickles to.
\* f0 has no pickle file.
Pickles ==
    (<<"f", "1">> :> [name |-> <<"a">>, num_speakers |-> None,
                      ivecs |-> << Ivec(<<12, 0>>, 0, 1500), Ivec(<<0, 12>>, 1500, 2250) >>])
    @@ (<<"f", "2">> :> [name |-> <<"beamformed", "b">>, num_speakers |-> None,
                      ivecs |-> << Ivec(<<12, 12>>, 0, 1000), Ivec(<<0, 24>>, 1000, 3500) >>])
    @@ (<<"f", "3">> :> [name |-> <<".", "c">>, num_speakers |-> None,
                      ivecs |-> << Ivec(<<24, 12>>, 250, 1250) >>])
    @@ (<<"f", "4">> :> [name |-> <<"e">>, num_speakers |-> None, ivecs |-> <<>>])

\* open(os.path.join(self.ivecs_dir, stem + '.pkl')) succeeds; a stem that keeps
\* the line's leading white space names no file.
FileExists(lead, stem) == ~lead /\ stem \in DOMAIN Pickles


----------------------------------------------------------------------------
(* IvecSet and path helpers *)

Size(s) == Len(s.ivecs)

GetAll(s) == [j \in 1..Len(s.ivecs) |-> s.ivecs[j].data]

IsRealComponent(c) == c \notin {"", "."}

\* os.path.normpath on a name without ".." components: empty and "." components
\* go, a leading '/' stays, and the empty result is ".".
Normpath(n) ==
    LET kept == SelectSeq(n, IsRealComponent)
    IN  IF Len(n) >= 2 /\ n[1] = "" THEN <<"">> \o kept
        ELSE IF kept = <<>> THEN <<".">>
        ELSE kept

\* 'beamformed' in name: the substring has no '/', so it lies inside one component,
\* and "beamformed" is the only component of the names used here that contains it.
HasBeamformed(n) == \E i \in 1..Len(n) : n[i] = "beamformed"

RECURSIVE ReSubBeamformed(_)
\* re.sub('beamformed/', '', name): every "beamformed" followed by '/' goes.
ReSubBeamformed(n) ==
    IF Len(n) <= 1 THEN n
    ELSE IF Head(n) = "beamformed" THEN ReSubBeamformed(Tail(n))
    ELSE <<Head(n)>> \o ReSubBeamformed(Tail(n))

\* re.sub('/.*', '', name): what precedes the first '/'.
RegName(n) == <<n[1]>>

\* float(ms / 1000.0), kept exact as whole seconds and milliseconds.
Seconds(ms) == [sec |-> ms \div 1000, msec |-> ms % 1000]

----------------------------------------------------------------------------
(* Clustering *)

\* Assignments of n points to k clusters, none of them empty.
Labelings(n, k) ==
    {lab \in [1..n -> 1..k] : \A c \in 1..k : \E j \in 1..n : lab[j] = c}

Members(lab, c) == SelectSeq([j \in 1..Len(lab) |-> j], LAMBDA j : lab[j] = c)

MeanOf(X, idx) ==
    [d \in 1..Len(X[1]) |-> SumSeq([m \in 1..Len(idx) |-> X[idx[m]][d]]) \div Len(idx)]

\* K-means that returns one centre too few.
KMeansCenters_OneShort(X, K) ==
    IF K < 1 \/ K > Len(X) THEN {}
    ELSE {[c \in 1..(K - 1) |-> MeanOf(X, Members(lab, c))] : lab \in Labelings(Len(X), K)}

\* sklearnKMeans(n_clusters=K).fit(X).cluster_centers_: K means of a partition of
\* the rows of X; the empty set stands for the ValueError that sklearn raises
\* when K < 1 or K exceeds the number of rows.
KMeansCenters(X, K) ==
    IF K < 1 \/ K > Len(X) THEN {}
    ELSE {[c \in 1..K |-> MeanOf(X, Members(lab, c))] : lab \in Labelings(Len(X), K)}

Max2(a, b) == IF a > b THEN a ELSE b

Min2(a, b) == IF a < b THEN a ELSE b

\* xmeans(X, kmax).process(); get_clusters(): the clusters as lists of 0-based
\* row indices.  The search starts from one centre and splits while fewer than
\* kmax centres exist, so it ends with 1..max(1, kmax) non-empty clusters.
XMeansClusters(X, kmax) ==
    UNION {{[c \in 1..k |-> [m \in 1..Len(Members(lab, c)) |-> Members(lab, c)[m] - 1]] :
                lab \in Labelings(Len(X), k)} :
            k \in 1..Min2(Len(X), Max2(1, kmax))}

\* np.array(list of lists): the rows are kept as they are; rows of unequal
\* length give an object array that no scorer accepts (see ShapeOk).
NpArray(rows) == rows

\* Every row of Y has the width of the rows of X.
ShapeOk(X, Y) == \A i \in 1..Len(Y) : Len(Y[i]) = Len(X[1])

----------------------------------------------------------------------------
(* Scoring *)

\* Cosine of the angle of x and y as sign(x.y) * 1000 * (x.y)^2 / (|x|^2 |y|^2),
\* which orders pairs as the cosine does; a zero vector scores 0.
CosSim(x, y) ==
    IF Dot(x, x) = 0 \/ Dot(y, y) = 0 THEN 0
    ELSE Sign(Dot(x, y)) * ((Dot(x, y) * Dot(x, y) * 1000) \div (Dot(x, x) * Dot(y, y)))

\* sklearn cosine_similarity(X, Y): one row per row of X, one column per row of Y.
CosineSimilarity(X, Y) == [i \in 1..Len(X) |-> [j \in 1..Len(Y) |-> CosSim(X[i], Y[j])]]

\* numpy .T of a matrix with nrows rows and ncols columns.
Transpose(M, ncols) == [c \in 1..ncols |-> [r \in 1..Len(M) |-> M[r][c]]]

\* plda.score(ivecs, centroids): pairwise scores, one row per centroid.
PldaPair(x, c) == 2 * Dot(x, c) - Dot(c, c)

PldaScore(X, Y) == [i \in 1..Len(Y) |-> [j \in 1..Len(X) |-> PldaPair(X[j], Y[i])]]

\* norm.s_norm(ivecs, centroids): pairwise scores recentred on their mean over
\* the centroids, one row per centroid.
SNorm(X, Y) ==
    [i \in 1..Len(Y) |-> [j \in 1..Len(X) |->
        Len(Y) * Dot(X[j], Y[i]) - SumSeq([k \in 1..Len(Y) |-> Dot(X[j], Y[k])])]]

\* numpy.argmax of a vector: the first index of the maximum, 0-based.
ArgMax(v) ==
    (CHOOSE i \in 1..Len(v) :
        /\ \A k \in 1..Len(v) : v[k] <= v[i]
        /\ \A k \in 1..(i - 1) : v[k] < v[i]) - 1

\* PLDAKMeans(centers, K, plda).fit(X): every centre is re-estimated as the mean
\* of the rows that score best against it; a centre that wins no row stays.
PLDAKMeansFit(centers, K, X) ==
    LET best(j) == 1 + ArgMax([c \in 1..K |-> PldaPair(X[j], centers[c])])
        won(c) == SelectSeq([j \in 1..Len(X) |-> j], LAMBDA j : best(j) = c)
    IN  [c \in 1..K |-> IF won(c) = <<>> THEN centers[c] ELSE MeanOf(X, won(c))]

\* Lines 110-116: which scorer produces the matrix.
ScorePath(n, p) == IF n THEN "norm" ELSE IF p THEN "plda" ELSE "cosine"

\* The selection with the PLDA model tested before the normalizer.
ScoreMatrix_PldaFirst(n, p, X, centroids) ==
    IF p THEN PldaScore(X, centroids)
    ELSE IF n THEN SNorm(X, centroids)
    ELSE Transpose(CosineSimilarity(X, centroids), Len(centroids))

\* Lines 110-116: the value stored in scores_dict[name].
ScoreMatrix(n, p, X, centroids) ==
    IF n THEN SNorm(X, centroids)
    ELSE IF p THEN PldaScore(X, centroids)
    ELSE Transpose(CosineSimilarity(X, centroids), Len(centroids))


----------------------------------------------------------------------------
(* Construction and load_ivecs *)

Init ==
    /\ pc = "new"
    /\ err = "none"
    /\ index \in SeqsUpTo(Lines, MaxLines)
    /\ lineNo = 1
    /\ loaded = <<>>
    /\ ivecs = <<>>
    /\ ivecs0 = <<>>
    /\ norm = FALSE
    /\ plda = FALSE
    /\ max_num_speakers = 0
    /\ pos = 1
    /\ scores_dict = EmptyDict
    /\ scores = EmptyDict
    /\ scored = FALSE
    /\ log = <<>>
    /\ rttm = EmptyDict
    /\ ret = [call |-> "none"]

\* __init__ with ivecs a directory (lines 32-34): load_ivecs starts reading.
ConstructFromDir ==
    /\ pc = "new"
    /\ pc' = "loading"
    /\ UNCHANGED <<err, index, lineNo, loaded, ivecs, ivecs0, norm, plda,
                   max_num_speakers, pos, scores_dict, scores, scored, log, rttm, ret>>

\* __init__ with ivecs a list of IvecSet instances (lines 35-38); the index
\* file is never read.
ConstructFromList ==
    /\ pc = "new"
    /\ index = <<>>
    /\ \E l \in SeqsUpTo({Pickles[f] : f \in DOMAIN Pickles}, MaxLines), n \in BOOLEAN, p \in BOOLEAN :
        /\ ivecs' = l
        /\ ivecs0' = l
        /\ norm' = n
        /\ plda' = p
    /\ pc' = "ready"
    /\ UNCHANGED <<err, index, lineNo, loaded,
                   max_num_speakers, pos, scores_dict, scores, scored, log, rttm, ret>>

\* The loader without the handler of line 82: a missing pickle file is fatal.
LoadLineError_NoHandler(line) ==
    IF Len(line.toks) = 0 THEN "IndexError"
    ELSE IF Len(line.toks) = 1
         THEN IF FileExists(line.lead, line.toks[1]) THEN "none" ELSE "IOError"
    ELSE IF Len(line.toks) = 2
         THEN IF ~ParseIntOk(line.toks[2]) THEN "ValueError"
              ELSE IF FileExists(FALSE, line.toks[1]) THEN "none" ELSE "IOError"
    ELSE "DiarizationException"

\* The exception that leaves load_ivecs on this line, or "none" (lines 64-84).
\* IOError is caught by the handler of line 82 and so never listed here.
LoadLineError(line) ==
    IF Len(line.toks) = 0 THEN "IndexError"
    ELSE IF Len(line.toks) = 1 THEN "none"
    ELSE IF Len(line.toks) = 2
         THEN IF ParseIntOk(line.toks[2]) THEN "none" ELSE "ValueError"
    ELSE "DiarizationException"

\* What load_ivecs yields for this line: a sequence of zero or one IvecSet.
LoadLineYield(line) ==
    IF Len(line.toks) = 1
    THEN IF FileExists(line.lead, line.toks[1]) THEN <<Pickles[line.toks[1]]>> ELSE <<>>
    ELSE IF Len(line.toks) = 2 /\ ParseIntOk(line.toks[2]) /\ FileExists(FALSE, line.toks[1])
    THEN <<[Pickles[line.toks[1]] EXCEPT !.num_speakers = Some(ParseInt(line.toks[2]))]>>
    ELSE <<>>

\* One iteration of the loop of load_ivecs (lines 63-84).
LoadLine ==
    /\ pc = "loading"
    /\ lineNo <= Len(index)
    /\ LET line == index[lineNo]
       IN  IF LoadLineError(line) # "none"
           THEN /\ pc' = "load_failed"
                /\ err' = LoadLineError(line)
                /\ UNCHANGED <<lineNo, loaded>>
           ELSE /\ loaded' = loaded \o LoadLineYield(line)
                /\ lineNo' = lineNo + 1
                /\ UNCHANGED <<pc, err>>
    /\ UNCHANGED <<index, ivecs, ivecs0, norm, plda,
                   max_num_speakers, pos, scores_dict, scores, scored, log, rttm, ret>>

\* The generator is exhausted: list(...) is stored, norm and plda are set
\* (lines 34, 37, 38) and the constructor returns.  The generator's frame and
\* its file handle are gone.
FinishLoad ==
    /\ pc = "loading"
    /\ lineNo > Len(index)
    /\ ivecs' = loaded
    /\ ivecs0' = loaded
    /\ \E n \in BOOLEAN, p \in BOOLEAN : norm' = n /\ plda' = p
    /\ pc' = "ready"
    /\ index' = <<>>
    /\ loaded' = <<>>
    /\ lineNo' = 1
    /\ UNCHANGED <<err, max_num_speakers, pos, scores_dict, scores, scored, log, rttm, ret>>

----------------------------------------------------------------------------
(* score_ivec *)

Fail(e) == pc' = "failed" /\ err' = e

LogEntry(est, centroids, path, stored) ==
    [est |-> est, centroids |-> centroids, path |-> path, stored |-> stored]

\* Line 92: a call starts.  The caller keeps one mapping, the one returned by
\* its latest score_ivec call, and one output directory per mapping.
ScoreStart ==
    /\ pc = "ready"
    /\ \E m \in 1..MaxSpeakersArg : max_num_speakers' = m
    /\ pc' = "scoring"
    /\ pos' = 1
    /\ scores_dict' = EmptyDict
    /\ log' = <<>>
    /\ scores' = EmptyDict
    /\ scored' = FALSE
    /\ rttm' = EmptyDict
    /\ ret' = [call |-> "score_ivec"]
    /\ UNCHANGED <<err, index, lineNo, loaded, ivecs, ivecs0, norm, plda>>

\* Lines 110-116 for the set at pos, given its centroids.
StoreScores(est, centroids) ==
    LET s == ivecs[pos]
    IN  IF ShapeOk(GetAll(s), centroids)
        THEN /\ scores_dict' = DictPut(scores_dict, Normpath(s.name),
                                       ScoreMatrix(norm, plda, GetAll(s), centroids))
             /\ log' = Append(log, LogEntry(est, centroids, ScorePath(norm, plda), TRUE))
             /\ pos' = pos + 1
             /\ UNCHANGED <<pc, err>>
        ELSE /\ Fail("ValueError")
             /\ log' = Append(log, LogEntry(est, centroids, ScorePath(norm, plda), FALSE))
             /\ UNCHANGED <<pos, scores_dict>>

\* Lines 99-105 and 110-116: a non-empty set with a declared speaker count.
ScoreFixedK ==
    /\ pc = "scoring"
    /\ pos <= Len(ivecs)
    /\ Size(ivecs[pos]) > 0
    /\ ivecs[pos].num_speakers # None
    /\ LET s == ivecs[pos]
           K == s.num_speakers[1]
       IN  IF KMeansCenters(GetAll(s), K) = {}
           THEN /\ Fail("ValueError")
                /\ log' = Append(log, LogEntry("kmeans", <<>>, "none", FALSE))
                /\ UNCHANGED <<pos, scores_dict>>
           ELSE \E centers \in KMeansCenters(GetAll(s), K) :
                    StoreScores("kmeans",
                                IF plda THEN PLDAKMeansFit(centers, K, GetAll(s)) ELSE centers)
    /\ UNCHANGED <<index, lineNo, loaded, ivecs, ivecs0, norm, plda,
                   max_num_speakers, scores, scored, rttm, ret>>

\* Lines 106-109 and 110-116: a non-empty set without a declared speaker count.
ScoreXMeans ==
    /\ pc = "scoring"
    /\ pos <= Len(ivecs)
    /\ Size(ivecs[pos]) > 0
    /\ ivecs[pos].num_speakers = None
    /\ \E clusters \in XMeansClusters(GetAll(ivecs[pos]), max_num_speakers) :
           StoreScores("xmeans", NpArray(clusters))
    /\ UNCHANGED <<index, lineNo, loaded, ivecs, ivecs0, norm, plda,
                   max_num_speakers, scores, scored, rttm, ret>>

\* Lines 117-118: an empty set is skipped with a warning.
ScoreEmpty ==
    /\ pc = "scoring"
    /\ pos <= Len(ivecs)
    /\ Size(ivecs[pos]) = 0
    /\ log' = Append(log, LogEntry("none", <<>>, "none", FALSE))
    /\ pos' = pos + 1
    /\ UNCHANGED <<pc, err, index, lineNo, loaded, ivecs, ivecs0, norm, plda,
                   max_num_speakers, scores_dict, scores, scored, rttm, ret>>

\* Line 119.
ScoreReturn ==
    /\ pc = "scoring"
    /\ pos > Len(ivecs)
    /\ scores' = scores_dict
    /\ scored' = TRUE
    /\ pc' = "ready"
    /\ max_num_speakers' = 0
    /\ UNCHANGED <<err, index, lineNo, loaded, ivecs, ivecs0, norm, plda,
                   pos, scores_dict, log, rttm, ret>>

----------------------------------------------------------------------------
(* dump_rttm *)

\* Lines 143-144: the name the set carries after the iteration.
DumpedName(n) == IF HasBeamformed(n) THEN ReSubBeamformed(n) ELSE n

\* Lines 150-153: the record written for segment i of set s; M is scores[name].
RttmRecord(s, newname, M, i) ==
    [reg_name |-> RegName(newname),
     start    |-> Seconds(s.ivecs[i].window_start),
     duration |-> Seconds(s.ivecs[i].window_end - s.ivecs[i].window_start),
     spkr     |-> ArgMax([r \in 1..Len(M) |-> M[r][i]])]

\* A call starts; it is given the mapping that score_ivec returned and a fresh
\* output directory.
DumpStart ==
    /\ pc = "ready"
    /\ scored
    /\ pc' = "dumping"
    /\ pos' = 1
    /\ rttm' = EmptyDict
    /\ ret' = [call |-> "dump_rttm"]
    /\ UNCHANGED <<err, index, lineNo, loaded, ivecs, ivecs0, norm, plda,
                   max_num_speakers, scores_dict, scores, scored, log>>

\* Lines 140-153: a non-empty set.  The name is rewritten and the file opened
\* before the first look at scores[name].
DumpSet ==
    /\ pc = "dumping"
    /\ pos <= Len(ivecs)
    /\ Size(ivecs[pos]) > 0
    /\ LET s == ivecs[pos]
           name == s.name
           newname == DumpedName(s.name)
       IN  /\ ivecs' = [ivecs EXCEPT ![pos].name = newname]
           /\ IF name \notin DOMAIN scores
              THEN /\ Fail("KeyError")
                   /\ rttm' = DictPut(rttm, name, <<>>)
                   /\ UNCHANGED pos
              ELSE LET M == scores[name]
                       n == Min2(Size(s), Len(M[1]))
                       written == [i \in 1..n |-> RttmRecord(s, newname, M, i)]
                   IN  /\ rttm' = DictPut(rttm, name, written)
                       /\ IF n < Size(s)
                          THEN Fail("IndexError") /\ UNCHANGED pos
                          ELSE pos' = pos + 1 /\ UNCHANGED <<pc, err>>
    /\ UNCHANGED <<index, lineNo, loaded, ivecs0, norm, plda,
                   max_num_speakers, scores_dict, scores, scored, log, ret>>

\* Lines 154-155: an empty set is skipped with a warning.
DumpEmpty ==
    /\ pc = "dumping"
    /\ pos <= Len(ivecs)
    /\ Size(ivecs[pos]) = 0
    /\ pos' = pos + 1
    /\ UNCHANGED <<pc, err, index, lineNo, loaded, ivecs, ivecs0, norm, plda,
                   max_num_speakers, scores_dict, scores, scored, log, rttm, ret>>

DumpReturn ==
    /\ pc = "dumping"
    /\ pos > Len(ivecs)
    /\ pc' = "ready"
    /\ ret' = [call |-> "dump_rttm", done |-> TRUE]
    /\ UNCHANGED <<err, index, lineNo, loaded, ivecs, ivecs0, norm, plda,
                   max_num_speakers, pos, scores_dict, scores, scored, log, rttm>>

----------------------------------------------------------------------------
(* get_ivec, variational_bayes, get_num_speakers *)

QueryNames == {<<"a">>, <<"b">>, <<"beamformed", "b">>, <<"zz">>}

\* Lines 48-54.
GetIvec ==
    /\ pc = "ready"
    /\ \E name \in QueryNames :
        IF \E i \in 1..Len(ivecs) : ivecs[i].name = name
        THEN /\ ret' = [call |-> "get_ivec", name |-> name,
                        found |-> ivecs[CHOOSE i \in 1..Len(ivecs) :
                                            /\ ivecs[i].name = name
                                            /\ \A k \in 1..(i - 1) : ivecs[k].name # name]]
             /\ UNCHANGED <<pc, err>>
        ELSE /\ ret' = [call |-> "get_ivec", name |-> name]
             /\ Fail("DiarizationException")
    /\ UNCHANGED <<index, lineNo, loaded, ivecs, ivecs0, norm, plda,
                   max_num_speakers, pos, scores_dict, scores, scored, log, rttm>>

\* Lines 122-127: every set is looked at, nothing is written.
VariationalBayes ==
    /\ pc = "ready"
    /\ scored
    /\ ret' = [call |-> "variational_bayes"]
    /\ UNCHANGED <<pc, err, index, lineNo, loaded, ivecs, ivecs0, norm, plda,
                   max_num_speakers, pos, scores_dict, scores, scored, log, rttm>>

\* Lines 169-179 on the vectors X.  The first pass of the loop fits K-means
\* (line 172) and then reads self.s_norm (line 175); an empty range goes
\* straight to self.model (line 177).  The class sets neither attribute, so
\* the call ends in an exception whatever its arguments.
GetNumSpeakersError(X, min_speakers, max_speakers) ==
    IF min_speakers > max_speakers THEN "AttributeError"
    ELSE IF KMeansCenters(X, min_speakers) = {} THEN "ValueError"
    ELSE "AttributeError"

\* The defaults of line 157.
MinSpeakersDefault == 2

MaxSpeakersDefault == 6

GetNumSpeakers ==
    /\ pc = "ready"
    /\ \E i \in 1..Len(ivecs), lo \in 1..MinSpeakersDefault, hi \in {1, MaxSpeakersDefault} :
        /\ Size(ivecs[i]) > 0
        /\ ret' = [call |-> "get_num_speakers",
                   min_speakers |-> lo, max_speakers |-> hi, returned |-> FALSE]
        /\ Fail(GetNumSpeakersError(GetAll(ivecs[i]), lo, hi))
    /\ UNCHANGED <<index, lineNo, loaded, ivecs, ivecs0, norm, plda,
                   max_num_speakers, pos, scores_dict, scores, scored, log, rttm>>

----------------------------------------------------------------------------

Next ==
    \/ ConstructFromDir
    \/ ConstructFromList
    \/ LoadLine
    \/ FinishLoad
    \/ ScoreStart
    \/ ScoreFixedK
    \/ ScoreXMeans
    \/ ScoreEmpty
    \/ ScoreReturn
    \/ DumpStart
    \/ DumpSet
    \/ DumpEmpty
    \/ DumpReturn
    \/ GetIvec
    \/ VariationalBayes
    \/ GetNumSpeakers

Spec == Init /\ [][Next]_vars


----------------------------------------------------------------------------
(* Properties *)

\* The state belongs to a score_ivec call: running, just returned, or ended
\* by an exception.  log[i] then describes the i-th set of self.ivecs.
InScore == ret.call = "score_ivec"

InLoad == pc \in {"loading", "load_failed"}

Constructed == pc \notin {"new", "loading", "load_failed"}

\* The matrix has one row per centroid, one column per embedding of s, and
\* column j holds the scores of the j-th embedding of s alone.
ShapedFor(M, s, centroids) ==
    /\ Len(M) = Len(centroids)
    /\ \A r \in 1..Len(M) :
        /\ Len(M[r]) = Size(s)
        /\ \A j \in 1..Size(s) :
            M[r][j] = ScoreMatrix(norm, plda, <<GetAll(s)[j]>>, centroids)[r][1]

\* C1 (the half about sets without a declared speaker count): every non-empty
\* set that score_ivec has gone through on the x-means path has an entry under
\* its normalised name, a matrix with one row per cluster that x-means
\* produced and one column per embedding, column j scoring embedding j.
C1_ScoreMatrixShape ==
    InScore =>
        \A i \in 1..Len(log) :
            (Size(ivecs[i]) > 0 /\ ivecs[i].num_speakers = None) =>
                /\ Normpath(ivecs[i].name) \in DOMAIN scores_dict
                /\ ShapedFor(scores_dict[Normpath(ivecs[i].name)], ivecs[i], log[i].centroids)

\* C2: a set that reaches scoring is scored by exactly one scorer: s_norm when
\* a normalizer is configured (with or without a PLDA model), else plda.score
\* when a PLDA model is configured, else the transposed cosine similarity; and
\* the matrix stored for the set just processed is that scorer's result.  A
\* set that does not reach scoring (empty, or clustering raised) uses none.
C2_PathSelection ==
    InScore =>
        \A i \in 1..Len(log) :
            LET X == GetAll(ivecs[i])
                C == log[i].centroids
                reached == Size(ivecs[i]) > 0 /\ C # <<>>
            IN  /\ reached =>
                    log[i].path = (IF norm THEN "norm" ELSE IF plda THEN "plda" ELSE "cosine")
                /\ ~reached => log[i].path = "none"
                /\ (log[i].stored /\ i = Len(log)) =>
                    scores_dict[Normpath(ivecs[i].name)] =
                        (CASE norm -> SNorm(X, C)
                           [] ~norm /\ plda -> PldaScore(X, C)
                           [] OTHER -> [c \in 1..Len(C) |-> [j \in 1..Len(X) |-> CosSim(X[j], C[c])]])

C2_Witness ==
    /\ InScore
    /\ norm /\ plda
    /\ \E i \in 1..Len(log) : log[i].stored /\ Len(log[i].centroids) = 2

\* C3: in a batch that holds an empty set, the empty set has neither
\* clustering nor scoring invoked on it and gets no entry, no exception leaves
\* score_ivec, and once the call is over every non-empty set of the batch has
\* its entry.
C3_EmptySetSkipped ==
    (InScore /\ \E e \in 1..Len(ivecs) : Size(ivecs[e]) = 0) =>
        /\ err = "none"
        /\ \A i \in 1..Len(log) :
            Size(ivecs[i]) = 0 =>
                /\ log[i].est = "none" /\ log[i].path = "none" /\ ~log[i].stored
                /\ \/ Normpath(ivecs[i].name) \notin DOMAIN scores_dict
                   \/ \E k \in 1..Len(log) :
                        log[k].stored /\ Normpath(ivecs[k].name) = Normpath(ivecs[i].name)
        /\ pc # "scoring" =>
            \A i \in 1..Len(ivecs) :
                Size(ivecs[i]) > 0 => Normpath(ivecs[i].name) \in DOMAIN scores_dict

\* The records an index prefix refers to that exist in storage, in index
\* order, each with the count its line declares.
RECURSIVE PresentRecords(_)
PresentRecords(idx) ==
    IF idx = <<>> THEN <<>>
    ELSE LET line == Head(idx)
             stem == line.toks[1]
             there == (Len(line.toks) = 2 \/ ~line.lead) /\ stem \in DOMAIN Pickles
             rec == [name |-> Pickles[stem].name, ivecs |-> Pickles[stem].ivecs,
                     num_speakers |-> IF Len(line.toks) = 2
                                      THEN Some(ParseInt(line.toks[2])) ELSE None]
         IN  (IF there THEN <<rec>> ELSE <<>>) \o PresentRecords(Tail(idx))

\* <name>, or <name> <count> with <count> an integer literal.
ValidLine(line) ==
    \/ Len(line.toks) = 1
    \/ /\ Len(line.toks) = 2
       /\ LET tok == line.toks[2]
              signed == tok # <<>> /\ tok[1] \in {"-", "+"}
              first == IF signed THEN 2 ELSE 1
          IN  first <= Len(tok) /\ \A i \in first..Len(tok) : tok[i] \in Digits

\* C4: while load_ivecs reads lines of the form <name> or <name> <count>, a
\* line whose record is missing raises nothing, and what has been yielded is
\* exactly the records that exist, in index order, those after a missing one
\* included.
C4_MissingRecordsSkipped ==
    InLoad =>
        /\ (pc = "load_failed") => ~ValidLine(index[lineNo])
        /\ (\A k \in 1..(lineNo - 1) : ValidLine(index[k])) =>
                loaded = PresentRecords(SubSeq(index, 1, lineNo - 1))

C4_Witness ==
    /\ pc = "loading"
    /\ lineNo > Len(index)
    /\ Len(index) = 2
    /\ index[1].toks = <<<<"f", "0">>, <<"2">>>>
    /\ Len(loaded) = 1
    /\ loaded[1].name = Pickles[index[2].toks[1]].name

\* C5: a line whose column count is neither 1 nor 2 (0 included) aborts the
\* load with DiarizationException and nothing else, and no such line is ever
\* read past.
C5_MalformedIndexError ==
    InLoad =>
        /\ \A k \in 1..(lineNo - 1) : Len(index[k].toks) \in {1, 2}
        /\ (lineNo <= Len(index) /\ Len(index[lineNo].toks) \notin {1, 2} /\ pc = "load_failed")
                => err = "DiarizationException"

\* C6: a line whose count is not an integer does not abort the load: the
\* loader never stops on such a line.
C6_MalformedCountTolerated ==
    (pc = "load_failed") =>
        ~(Len(index[lineNo].toks) = 2 /\ ~ValidLine(index[lineNo]))

\* C7: dump_rttm, given the mapping score_ivec returned, raises neither
\* KeyError nor IndexError, and for every non-empty set it has gone through
\* the file it wrote holds one record per segment, in order: speaker index
\* the argmax of the segment's column of the set's own matrix, start and
\* duration the window start and length in seconds.
C7_DumpUsesOwnScores ==
    (ret.call = "dump_rttm") =>
        /\ err = "none"
        /\ \A i \in 1..Len(ivecs) :
            (Size(ivecs[i]) > 0 /\ (i < pos \/ ret = [call |-> "dump_rttm", done |-> TRUE])) =>
                \E f \in DOMAIN rttm :
                    /\ DumpedName(f) = ivecs[i].name
                    /\ Normpath(f) \in DOMAIN scores
                    /\ Len(rttm[f]) = Size(ivecs[i])
                    /\ \A j \in 1..Size(ivecs[i]) :
                        LET M == scores[Normpath(f)]
                            w == ivecs[i].ivecs[j]
                        IN  /\ rttm[f][j].spkr + 1 \in 1..Len(M)
                            /\ \A r \in 1..Len(M) : M[r][j] <= M[rttm[f][j].spkr + 1][j]
                            /\ 1000 * rttm[f][j].start.sec + rttm[f][j].start.msec = w.window_start
                            /\ 1000 * rttm[f][j].duration.sec + rttm[f][j].duration.msec
                                    = w.window_end - w.window_start

\* C8: get_num_speakers returns (a count within [min_speakers, max_speakers]
\* and that many centroids), and the x-means path of score_ivec yields
\* between 2 and max_num_speakers centroids.
C8_SpeakerCountWithinBounds ==
    /\ (ret.call = "get_num_speakers") => (ret.returned /\ err = "none")
    /\ (InScore /\ pc # "ready") =>
        \A i \in 1..Len(log) :
            log[i].est = "xmeans" =>
                (2 <= Len(log[i].centroids) /\ Len(log[i].centroids) <= max_num_speakers)

\* C9 as stated: whatever positive count K the loader accepted for a non-empty
\* set, K larger than the number of embeddings included, the fixed-K path
\* produces K centroids and a matrix of K rows.
C9_ExactlyKCentroids ==
    InScore =>
        \A i \in 1..Len(log) :
            (/\ Size(ivecs[i]) > 0
             /\ ivecs[i].num_speakers # None
             /\ ivecs[i].num_speakers[1] >= 1) =>
                /\ Len(log[i].centroids) = ivecs[i].num_speakers[1]
                /\ log[i].stored

\* C9 amended: for a declared count K with 1 <= K <= number of embeddings,
\* the fixed-K path (K-means, then the PLDA re-estimation when a PLDA model is
\* configured) produces exactly K centroids and the matrix stored for the set
\* has exactly K rows.
C9_ExactlyKCentroids_Amended ==
    InScore =>
        \A i \in 1..Len(log) :
            (/\ ivecs[i].num_speakers # None
             /\ 1 <= ivecs[i].num_speakers[1]
             /\ ivecs[i].num_speakers[1] <= Size(ivecs[i])) =>
                /\ log[i].est = "kmeans"
                /\ Len(log[i].centroids) = ivecs[i].num_speakers[1]
                /\ log[i].stored
                /\ (i = Len(log)) =>
                    Len(scores_dict[Normpath(ivecs[i].name)]) = ivecs[i].num_speakers[1]

C9_Witness ==
    /\ InScore
    /\ plda
    /\ \E i \in 1..Len(log) :
        /\ i = Len(log)
        /\ ivecs[i].num_speakers = Some(2)
        /\ Size(ivecs[i]) = 2
        /\ Len(scores_dict[Normpath(ivecs[i].name)]) = 2

\* C10: once the constructor has returned, no call changes the name, the
\* embeddings or the declared speaker count of any set.
C10_SetsImmutableAfterLoad == Constructed => ivecs = ivecs0

====
